---- MODULE Spec2Model ----
(***************************************************************************)
(* Model of app.py (Crypto Coin Scanner): the CoinGecko fetch and ranking  *)
(* pipeline (get_top_gainers), the Binance availability check              *)
(* (get_binance_tradable_usdt_pairs, check_binance_data), the Brave news   *)
(* lookup (get_brave_search_news) and the two button handlers that drive   *)
(* them over st.session_state.                                             *)
(*                                                                         *)
(* Units: prices are in thousandths of a dollar (0.01 USD = 10); volumes   *)
(* and percentage changes are integers.                                    *)
(***************************************************************************)
EXTENDS Integers, Sequences, FiniteSets, TLC

VARIABLES
    top_coins_data,         \* st.session_state.top_coins_data
    coins_df,               \* st.session_state.coins_df
    data_fetched_time_utc,  \* st.session_state.data_fetched_time_utc
    news_cache,             \* st.session_state.news_cache
    binance_usdt_pairs,     \* st.session_state.binance_usdt_pairs
    now,                    \* the clock read by datetime.utcnow(): one tick per fetch action
    origin,                 \* which fetch (clock value) produced top_coins_data / coins_df
    exchange_info_requests, \* outcome of each GET /api/v3/exchangeInfo of the session
    news_requests,          \* coin names searched since the last fetch action, in order
    last,                   \* what the last handler run did (requests, results, exception)
    args,                   \* arguments of a direct function call
    ret,                    \* its return value and the requests it issued
    pc                      \* "session" | "call" | "done"

vars == <<top_coins_data, coins_df, data_fetched_time_utc, news_cache,
          binance_usdt_pairs, now, origin, exchange_info_requests,
          news_requests, last, args, ret, pc>>

session_vars == <<top_coins_data, coins_df, data_fetched_time_utc, news_cache,
                  binance_usdt_pairs, now, origin, exchange_info_requests,
                  news_requests, last>>

-----------------------------------------------------------------------------
(* Bounds of the model *)

PerPage == 6        \* records on a full page (the API is asked for 100)
MaxFetches == 2     \* fetch actions per session
MaxTail == 2        \* free records around the listing window of a ranking input
MaxWindow == 12     \* longest listing window of a ranking input
MaxItems == 4       \* items in one result collection of a search response

-----------------------------------------------------------------------------
(* Python / JSON values *)

\* A key of a dict (or of st.session_state) that is not there, a JSON null,
\* and a present value.
Absent == <<"absent">>
Null == <<"null">>
Val(v) == <<"val", v>>

\* None as a return value or argument; Some(v) is any other value.
None == <<>>
Some(v) == <<v>>

IsVal(f) == Len(f) = 2
ValOf(f) == f[2]

\* dict.get(key): None for a missing key and for a null.
GetIsNone(f) == ~IsVal(f)

\* dict.get(key, default): the default only for a missing key.
GetOr(f, default) == IF f = Absent THEN Val(default) ELSE f

RECURSIVE SeqsUpTo(_, _)
SeqsUpTo(S, n) ==
    IF n = 0 THEN {<<>>}
    ELSE LET shorter == SeqsUpTo(S, n - 1)
         IN  shorter \cup {Append(s, x) : s \in shorter, x \in S}

-----------------------------------------------------------------------------
(* get_top_gainers: the ranking (lines 130-157) *)

VolumeThreshold == 1000000
TopN == 10

\* unique_coins_map = {coin['id']: coin for coin in all_coins_data}
\* A dict is a sequence of <<key, value>> in insertion order; assigning to a
\* key that is there replaces the value in place.
DictSetKeepFirst(d, k, v) ==
    IF \E i \in 1..Len(d) : d[i][1] = k
    THEN d
    ELSE Append(d, <<k, v>>)

DictSet(d, k, v) ==
    IF \E i \in 1..Len(d) : d[i][1] = k
    THEN [i \in 1..Len(d) |-> IF d[i][1] = k THEN <<k, v>> ELSE d[i]]
    ELSE Append(d, <<k, v>>)

RECURSIVE DictOfCoins(_, _)
DictOfCoins(coins, d) ==
    IF coins = <<>> THEN d
    ELSE DictOfCoins(Tail(coins), DictSet(d, Head(coins).id, Head(coins)))

\* list(unique_coins_map.values())
DictValues(d) == [i \in 1..Len(d) |-> d[i][2]]

unique_coins_data(all_coins) == DictValues(DictOfCoins(all_coins, <<>>))

\* coin.get('price_change_percentage_24h_in_currency') is not None
HasChange(coin) == ~GetIsNone(coin.price_change_percentage_24h_in_currency)

valid_coins(coins) == SelectSeq(coins, HasChange)

\* coin.get('total_volume') is not None and coin['total_volume'] > 1000000
VolumeOkAtLeast(coin) == ~GetIsNone(coin.total_volume) /\ ValOf(coin.total_volume) >= VolumeThreshold

VolumeOk(coin) == ~GetIsNone(coin.total_volume) /\ ValOf(coin.total_volume) > VolumeThreshold

filtered_by_volume(coins) == SelectSeq(coins, VolumeOk)

\* sorted(..., key=change, reverse=True): stable, descending.  Each record
\* goes behind every record already placed whose key is not smaller.
InsertBeforeEqual(sorted, coin) ==
    LET k == ValOf(coin.price_change_percentage_24h_in_currency)
        before == SelectSeq(sorted, LAMBDA c : ValOf(c.price_change_percentage_24h_in_currency) > k)
        after == SelectSeq(sorted, LAMBDA c : ValOf(c.price_change_percentage_24h_in_currency) <= k)
    IN  before \o <<coin>> \o after

InsertDescending(sorted, coin) ==
    LET k == ValOf(coin.price_change_percentage_24h_in_currency)
        before == SelectSeq(sorted, LAMBDA c : ValOf(c.price_change_percentage_24h_in_currency) >= k)
        after == SelectSeq(sorted, LAMBDA c : ValOf(c.price_change_percentage_24h_in_currency) < k)
    IN  before \o <<coin>> \o after

RECURSIVE SortFrom(_, _)
SortFrom(coins, sorted) ==
    IF coins = <<>> THEN sorted
    ELSE SortFrom(Tail(coins), InsertDescending(sorted, Head(coins)))

sorted_coins(coins) == SortFrom(coins, <<>>)

\* sorted_coins[:10]
Truncate(coins) == SubSeq(coins, 1, IF Len(coins) < TopN THEN Len(coins) ELSE TopN)

\* Lines 130-157 on a non-empty all_coins_data whose records all have an id:
\* None when nothing qualifies, else the first ten.
Rank(all_coins) ==
    LET sorted == sorted_coins(filtered_by_volume(valid_coins(unique_coins_data(all_coins))))
    IN  IF sorted = <<>> THEN None ELSE Some(Truncate(sorted))

-----------------------------------------------------------------------------
(* What the CoinGecko markets endpoint can answer *)

Names == <<"Bitcoin", "Ether", "Xyz Coin", "Solana", "Doge">>
Symbols == <<"btc", "eth", "xyz", "sol", "Doge">>

NameOf(i) == Names[((i - 1) % Len(Names)) + 1]
SymbolOf(i) == Symbols[((i - 1) % Len(Symbols)) + 1]

\* The record of the i-th coin of the listing under market condition m.
\*   1: every coin qualifies, changes rise along the listing
\*   2: tied, negative and null changes; volumes missing, at and above the threshold
\*   3: records without 'id'      4: 'symbol' is null
\*   5: 'current_price' is null   6: no 'name', 'symbol', 'current_price' keys
Markets == 1..6

MarketCoin(m, i) ==
    [id |-> IF m = 3 THEN Absent ELSE Val(i),
     name |-> IF m = 6 THEN Absent ELSE Val(NameOf(i)),
     symbol |-> IF m = 4 THEN Null ELSE IF m = 6 THEN Absent ELSE Val(SymbolOf(i)),
     current_price |-> IF m = 5 THEN Null ELSE IF m = 6 THEN Absent ELSE Val(i * 3),
     price_change_percentage_24h_in_currency |->
         IF m # 2 THEN Val(i)
         ELSE IF i % 4 = 0 THEN Null ELSE Val((i % 3) - 1),
     total_volume |->
         IF m # 2 THEN Val(VolumeThreshold + i)
         ELSE IF i % 5 = 0 THEN Absent
         ELSE IF i % 3 = 0 THEN Val(VolumeThreshold)
         ELSE Val(VolumeThreshold + 1)]

\* n consecutive records of the listing, after the first `start`.
Window(m, start, n) == [j \in 1..n |-> MarketCoin(m, start + j)]

\* Bodies of page 1 and of page 2.  The listing can move between the two
\* requests, so page 2 may repeat the last coin of page 1 with new values.
Page1Bodies ==
    {<<>>} \cup {Window(m, 0, PerPage) : m \in 1..2}
           \cup {Window(m, 0, 1) : m \in Markets}

Page2Bodies ==
    {<<>>, Window(1, PerPage, PerPage), Window(2, PerPage - 1, PerPage),
     Window(3, PerPage, 1)}

FailureKinds == {"http401", "http429", "http_other", "request_exception", "exception"}

OkPage(body) == [kind |-> "ok", body |-> body]
FailedPage(kind) == [kind |-> kind, body |-> <<>>]

PageOutcomes(bodies) == {OkPage(b) : b \in bodies} \cup {FailedPage(k) : k \in FailureKinds}

-----------------------------------------------------------------------------
(* get_top_gainers (lines 77-157) *)

Pages == <<1, 2>>

\* The except branches of one page (lines 102-124): TRUE when the function
\* returns None there, FALSE when it breaks out of the loop with what it has.
ReturnsNoneWhenEmpty(kind, all_coins_data) == all_coins_data = <<>>

ReturnsNoneOnAnyFailure(kind, all_coins_data) == TRUE

ReturnsNone(kind, all_coins_data) ==
    IF kind = "http401" THEN TRUE ELSE all_coins_data = <<>>

\* After a failed page that did not return: break (line 110, 114, 119, 124).
RestAfterBreak(rest) == <<>>

\* for page_num in [1, 2] (lines 87-124)
RECURSIVE PageLoop(_, _, _, _)
PageLoop(rest, resp, all_coins_data, log) ==
    IF rest = <<>> THEN [all_coins_data |-> all_coins_data, log |-> log, returned |-> FALSE]
    ELSE LET page_num == Head(rest)
             r == resp[page_num]
             log2 == Append(log, [page |-> page_num, kind |-> r.kind, body |-> r.body])
         IN  IF r.kind = "ok"
             THEN PageLoop(Tail(rest), resp, all_coins_data \o r.body, log2)
             ELSE IF ReturnsNone(r.kind, all_coins_data)
                  THEN [all_coins_data |-> all_coins_data, log |-> log2, returned |-> TRUE]
                  ELSE PageLoop(RestAfterBreak(Tail(rest)), resp, all_coins_data, log2)

\* coin['id'] of line 131 raises KeyError on a record without the key.
HasId(coin) == coin.id # Absent

get_top_gainers(key, resp) ==
    IF key = ""
    THEN [value |-> None, raised |-> "none", log |-> <<>>, all_coins_data |-> <<>>]
    ELSE LET loop == PageLoop(Pages, resp, <<>>, <<>>)
             out(v, e) == [value |-> v, raised |-> e, log |-> loop.log,
                           all_coins_data |-> loop.all_coins_data]
         IN  IF loop.returned \/ loop.all_coins_data = <<>>
             THEN out(None, "none")
             ELSE IF \E i \in 1..Len(loop.all_coins_data) : ~HasId(loop.all_coins_data[i])
                  THEN out(None, "KeyError")
                  ELSE out(Rank(loop.all_coins_data), "none")

-----------------------------------------------------------------------------
(* get_binance_tradable_usdt_pairs (lines 160-176) *)

Pair(symbol, quoteAsset, status) ==
    [symbol |-> symbol, quoteAsset |-> quoteAsset, status |-> status]

\* 'symbols' arrays of GET /api/v3/exchangeInfo.
ExchangeInfoBodies ==
    { <<Pair("ETHUSDT", "USDT", "BREAK"), Pair("ETHBTC", "BTC", "TRADING")>>,
      <<Pair("BTCUSDT", "USDT", "TRADING"), Pair("ETHUSDT", "USDT", "TRADING"),
        Pair("XYZUSDT", "USDT", "TRADING"), Pair("DOGEUSDT", "USDT", "TRADING"),
        Pair("SOLUSDT", "USDT", "BREAK"), Pair("SOLBTC", "BTC", "TRADING")>> }

ExchangeInfoOutcomes ==
    {[kind |-> "ok", symbols |-> b] : b \in ExchangeInfoBodies}
    \cup {[kind |-> k, symbols |-> <<>>] : k \in {"request_exception", "exception"}}

\* {s['symbol'] for s in data['symbols'] if s['quoteAsset'] == 'USDT' and s['status'] == 'TRADING'}
TradingUsdtSymbols(symbols) ==
    {symbols[i].symbol : i \in {j \in 1..Len(symbols) :
        symbols[j].quoteAsset = "USDT" /\ symbols[j].status = "TRADING"}}

\* Line 162: the request is made when the session has no pair set yet.
MustFetchPairsWhenEmpty(cached) == cached = Absent \/ cached = Val({})

MustFetchPairs(cached) == cached = Absent

\* Returns the pair set (also stored in the session) and whether it asked.
get_binance_tradable_usdt_pairs(cached, resp) ==
    IF MustFetchPairs(cached)
    THEN [pairs |-> IF resp.kind = "ok" THEN TradingUsdtSymbols(resp.symbols) ELSE {},
          requested |-> TRUE]
    ELSE [pairs |-> ValOf(cached), requested |-> FALSE]

-----------------------------------------------------------------------------
(* check_binance_data (lines 178-239) *)

\* str.upper() on the symbols of the model.
Upper(s) ==
    CASE s = "btc" -> "BTC"
      [] s = "eth" -> "ETH"
      [] s = "xyz" -> "XYZ"
      [] s = "sol" -> "SOL"
      [] s = "Doge" -> "DOGE"
      [] OTHER -> s

NA == <<"N/A">>

\* f"${price:,.8f}" if price < 0.01 else f"${price:,.2f}"; 0.01 USD is 10.
SmallPrice == 10

FormatBinancePrice(price) ==
    IF price < SmallPrice THEN <<"$,.8f", price>> ELSE <<"$,.2f", price>>

\* Status strings, in ASCII.
StatusCheckUnavailable == "Verif. Indisponivel"
StatusExchangeUnavailable == "Binance Indisponivel"
StatusNotListed == "Nao na Binance (USDT)"
StatusListed == "Na Binance"
StatusConnection == "Erro Conexao Binance"
StatusData == "Erro Dados Binance"

Quote(status, price, volume) ==
    [status_binance |-> status, price_binance |-> price, volume_binance |-> volume]

\* Answers of GET /api/v3/ticker/24hr.
TickerOutcomes ==
    {[kind |-> "ok", lastPrice |-> p, quoteVolume |-> v, status_code |-> "200", invalid_symbol |-> FALSE] :
        p \in {Absent, Null, Val(5), Val(10), Val(1234500)}, v \in {Absent, Val(777)}}
    \cup {[kind |-> "http", lastPrice |-> Absent, quoteVolume |-> Absent, status_code |-> c[1], invalid_symbol |-> c[2]] :
        c \in {<<"400", TRUE>>, <<"400", FALSE>>, <<"404", FALSE>>, <<"500", FALSE>>}}
    \cup {[kind |-> k, lastPrice |-> Absent, quoteVolume |-> Absent, status_code |-> "0", invalid_symbol |-> FALSE] :
        k \in {"request_exception", "exception"}}

\* Lines 212-239: the ticker request and its except branches.
TickerQuote(coin_symbol, t) ==
    IF t.kind = "ok"
    THEN IF t.lastPrice = Null \/ t.quoteVolume = Null
         THEN Quote(StatusData, NA, NA)
         ELSE Quote(StatusListed,
                    FormatBinancePrice(ValOf(GetOr(t.lastPrice, 0))),
                    <<"$,.2f", ValOf(GetOr(t.quoteVolume, 0))>>)
    ELSE IF t.kind = "http"
    THEN Quote(IF t.status_code = "400" /\ t.invalid_symbol
                   THEN Upper(coin_symbol) \o " Invalido (Ticker)"
               ELSE IF t.status_code = "404"
                   THEN Upper(coin_symbol) \o " Nao Listado (Ticker)"
               ELSE "Erro " \o t.status_code \o " Binance",
               NA, NA)
    ELSE IF t.kind = "request_exception"
    THEN Quote(StatusConnection, NA, NA)
    ELSE Quote(StatusData, NA, NA)

\* The pair-set argument: None, a set, or a value of another type.
NoPairs == [type |-> "NoneType", elems |-> {}]
PairSet(S) == [type |-> "set", elems |-> S]

\* Line 191
IsUnavailableNever(tradable_usdt_pairs) == FALSE

IsUnavailable(tradable_usdt_pairs) == tradable_usdt_pairs.type # "set"

\* Line 205
IsListedAlways(symbol, tradable_usdt_pairs) == TRUE

IsListed(symbol, tradable_usdt_pairs) == symbol \in tradable_usdt_pairs.elems

\* Returns the quote and the symbols it requested a ticker for.
check_binance_data(coin_symbol, tradable_usdt_pairs, ticker) ==
    LET binance_symbol_usdt == Upper(coin_symbol) \o "USDT"
        quiet(q) == [quote |-> q, ticker_requests |-> <<>>]
    IN  IF IsUnavailable(tradable_usdt_pairs)
        THEN quiet(Quote(StatusCheckUnavailable, NA, NA))
        ELSE IF tradable_usdt_pairs.elems = {}
        THEN quiet(Quote(StatusExchangeUnavailable, NA, NA))
        ELSE IF ~IsListed(binance_symbol_usdt, tradable_usdt_pairs)
        THEN quiet(Quote(StatusNotListed, NA, NA))
        ELSE [quote |-> TickerQuote(coin_symbol, ticker),
              ticker_requests |-> <<binance_symbol_usdt>>]

-----------------------------------------------------------------------------
(* get_brave_search_news (lines 242-327) *)

\* One raw result of the search API: every key may be missing.
RawItem(title, url, description, snippet, source, hostname) ==
    [title |-> title, url |-> url, description |-> description,
     snippet |-> snippet, source |-> source, hostname |-> hostname]

\* Raw results of a collection ("news" or "web"): a complete one and one
\* that only has the fallback keys.
RawItems(coll) ==
    { RawItem(Val(coll \o " title"), Val(coll \o " url"), Val(coll \o " description"),
              Val(coll \o " snippet"), Val(coll \o " source"), Val(coll \o " host")),
      RawItem(Absent, Absent, Absent, Val(coll \o " snippet"), Absent, Val(coll \o " host")) }

\* data['news'] / data['web']: no such key, a dict without 'results', or a
\* dict with a 'results' list.
Collections(coll) ==
    {Absent, Val(Absent)} \cup {Val(Val(r)) : r \in SeqsUpTo(RawItems(coll), MaxItems)}

\* data.get(key, {}).get('results', [])
ResultsOf(collection) ==
    IF collection = Absent THEN <<>>
    ELSE IF ValOf(collection) = Absent THEN <<>>
    ELSE ValOf(ValOf(collection))

\* Lines 278-287 and 296-305
ProcessItem(item) ==
    [title |-> ValOf(GetOr(item.title, "N/A")),
     url |-> ValOf(GetOr(item.url, "#")),
     snippet |-> ValOf(GetOr(item.description, ValOf(GetOr(item.snippet, "N/A")))),
     source |-> ValOf(GetOr(item.source, ValOf(GetOr(item.hostname, "N/A"))))]

ProcessItems(results) == [i \in 1..Len(results) |-> ProcessItem(results[i])]

\* Lines 269-305: the 'news' results, and the 'web' results only when
\* nothing was taken from 'news'.
ProcessedBoth(data) ==
    ProcessItems(ResultsOf(data.news)) \o ProcessItems(ResultsOf(data.web))

Processed(data) ==
    LET from_news == ProcessItems(ResultsOf(data.news))
    IN  IF from_news # <<>> THEN from_news ELSE ProcessItems(ResultsOf(data.web))

SearchData(news, web) == [news |-> news, web |-> web]

NoData == SearchData(Absent, Absent)

SearchOutcomes ==
    {[kind |-> "ok", data |-> SearchData(n, w), status_code |-> "200"] :
        n \in Collections("news"), w \in Collections("web")}
    \cup {[kind |-> "http", data |-> NoData, status_code |-> c] : c \in {"401", "429", "403", "500"}}
    \cup {[kind |-> k, data |-> NoData, status_code |-> "0"] : k \in {"request_exception", "exception"}}

\* The returned dict: {"news": items}, {"message": text} or {"error": text}.
NewsResult(key, items, text) == [key |-> key, items |-> items, text |-> text]

HttpErrorMessage(coin_name, status_code) ==
    "Erro HTTP " \o status_code \o " com Brave Web Search API para " \o coin_name \o "."
    \o (IF status_code = "401" THEN " Verifique sua Brave API Key."
        ELSE IF status_code = "429" THEN " Limite de requisicoes da Brave API atingido."
        ELSE IF status_code = "403" THEN " Acesso nao autorizado a Brave API."
        ELSE "")

\* Returns the dict and the number of search requests it issued.
get_brave_search_news(coin_name, b_api_key, count, resp) ==
    LET quiet(r) == [result |-> r, requests |-> 0]
        asked(r) == [result |-> r, requests |-> 1]
    IN  IF b_api_key = ""
        THEN quiet(NewsResult("error", <<>>, "Brave Search API Key nao fornecida."))
        ELSE IF coin_name = ""
        THEN quiet(NewsResult("error", <<>>, "Nome da moeda nao fornecido."))
        ELSE IF resp.kind = "ok"
        THEN LET processed_items == Processed(resp.data)
             IN  IF processed_items # <<>>
                 THEN asked(NewsResult("news", processed_items, ""))
                 ELSE asked(NewsResult("message", <<>>,
                        "Nenhuma noticia ou resultado web relevante encontrado para " \o coin_name))
        ELSE IF resp.kind = "http"
        THEN asked(NewsResult("error", <<>>, HttpErrorMessage(coin_name, resp.status_code)))
        ELSE IF resp.kind = "request_exception"
        THEN asked(NewsResult("error", <<>>,
               "Erro de conexao com Brave Web Search API para " \o coin_name \o "."))
        ELSE asked(NewsResult("error", <<>>,
               "Erro inesperado ao buscar noticias para " \o coin_name \o "."))

-----------------------------------------------------------------------------
(* The fetch action: "Buscar Dados" (lines 331-371) *)

Keys == {"", "demo-key"}

\* f"${price:.8f}" if price < 0.01 else f"${price:,.4f}" (lines 357-361)
FormatCoinGeckoPrice(price) ==
    IF price < SmallPrice THEN <<"$.8f", price>> ELSE <<"$,.4f", price>>

\* One row of coins_data_processed (lines 354-366)
Row(coin, coin_symbol_upper, binance_data) ==
    [Nome |-> ValOf(GetOr(coin.name, "N/A")),
     Simbolo |-> coin_symbol_upper,
     Preco_CoinGecko |-> FormatCoinGeckoPrice(ValOf(GetOr(coin.current_price, 0))),
     Subida_24h |-> <<".2f%", ValOf(coin.price_change_percentage_24h_in_currency)>>,
     Status_Binance |-> binance_data.status_binance,
     Preco_Binance |-> binance_data.price_binance,
     Volume_Binance |-> binance_data.volume_binance]

\* for coin in st.session_state.top_coins_data (lines 351-366).  .upper() on a
\* null symbol raises AttributeError, comparing a null price raises TypeError.
RECURSIVE BuildRows(_, _, _, _, _)
BuildRows(coins, pairs, ticker, rows, reqs) ==
    IF coins = <<>> THEN [rows |-> rows, ticker_requests |-> reqs, raised |-> "none"]
    ELSE LET coin == Head(coins)
             symbol == GetOr(coin.symbol, "N/A")
         IN  IF symbol = Null
             THEN [rows |-> rows, ticker_requests |-> reqs, raised |-> "AttributeError"]
             ELSE LET coin_symbol_upper == Upper(ValOf(symbol))
                      checked == check_binance_data(coin_symbol_upper, PairSet(pairs), ticker)
                      reqs2 == reqs \o checked.ticker_requests
                  IN  IF GetOr(coin.current_price, 0) = Null
                      THEN [rows |-> rows, ticker_requests |-> reqs2, raised |-> "TypeError"]
                      ELSE BuildRows(Tail(coins), pairs, ticker,
                                     Append(rows, Row(coin, coin_symbol_upper, checked.quote)),
                                     reqs2)

\* Lines 333-336: what the handler removes from the session before fetching.
PoppedExceptTable == {"top_coins_data", "news_cache", "data_fetched_time_utc"}

Popped == {"top_coins_data", "coins_df", "news_cache", "data_fetched_time_utc"}

AfterPop(name, value) == IF name \in Popped THEN Absent ELSE value

NoFetch == [action |-> "none", key |-> "", value |-> None, raised |-> "none",
            gainers_raised |-> "none",
            log |-> <<>>, all_coins_data |-> <<>>,
            pairs_requested |-> FALSE, pairs |-> {}, ticker_requests |-> <<>>]

Fetch(api_key, resp, exchange_info, ticker) ==
    LET g == get_top_gainers(api_key, resp)
        report(e, asked, pairs, reqs) ==
            [action |-> "fetch", key |-> api_key, value |-> g.value, raised |-> e,
             gainers_raised |-> g.raised, log |-> g.log, all_coins_data |-> g.all_coins_data,
             pairs_requested |-> asked, pairs |-> pairs, ticker_requests |-> reqs]
    IN  /\ pc = "session"
        /\ now < MaxFetches
        /\ now' = now + 1
        /\ news_cache' = AfterPop("news_cache", news_cache)
        /\ news_requests' = <<>>
        /\ IF g.value = None
           THEN /\ top_coins_data' = AfterPop("top_coins_data", top_coins_data)
                /\ coins_df' = AfterPop("coins_df", coins_df)
                /\ data_fetched_time_utc' = AfterPop("data_fetched_time_utc", data_fetched_time_utc)
                /\ last' = report(g.raised, FALSE, {}, <<>>)
                /\ UNCHANGED <<binance_usdt_pairs, exchange_info_requests, origin>>
           ELSE LET t == get_binance_tradable_usdt_pairs(binance_usdt_pairs, exchange_info)
                    b == BuildRows(g.value[1], t.pairs, ticker, <<>>, <<>>)
                IN  /\ top_coins_data' = Val(g.value[1])
                    /\ data_fetched_time_utc' = Val(now')
                    /\ binance_usdt_pairs' = Val(t.pairs)
                    /\ exchange_info_requests' =
                           IF t.requested
                           THEN Append(exchange_info_requests, exchange_info.kind)
                           ELSE exchange_info_requests
                    /\ coins_df' = IF b.raised = "none" THEN Val(b.rows)
                                   ELSE AfterPop("coins_df", coins_df)
                    /\ origin' = [top_coins_data |-> now',
                                  coins_df |-> IF b.raised = "none" THEN now'
                                               ELSE origin.coins_df]
                    /\ last' = report(b.raised, t.requested, t.pairs, b.ticker_requests)
        /\ UNCHANGED <<args, ret, pc>>

\* Ticker answers within a session: a price below 0.01 USD, or HTTP 404.
SessionTickerOutcomes ==
    {t \in TickerOutcomes :
        \/ t.kind = "ok" /\ t.lastPrice = Val(5) /\ t.quoteVolume = Val(777)
        \/ t.kind = "http" /\ t.status_code = "404"}

\* The answers a fetch can get: both pages, and the exchange and ticker
\* answers when those requests are made.
FetchData ==
    \E api_key \in Keys :
    \E r1 \in PageOutcomes(Page1Bodies), r2 \in PageOutcomes(Page2Bodies) :
        LET resp == <<r1, r2>>
            g == get_top_gainers(api_key, resp)
            any_exchange_info == CHOOSE x \in ExchangeInfoOutcomes : TRUE
            any_ticker == CHOOSE x \in SessionTickerOutcomes : TRUE
        IN  IF g.value = None
            THEN Fetch(api_key, resp, any_exchange_info, any_ticker)
            ELSE \E exchange_info \in
                        IF MustFetchPairs(binance_usdt_pairs)
                        THEN ExchangeInfoOutcomes ELSE {any_exchange_info} :
                    LET t == get_binance_tradable_usdt_pairs(binance_usdt_pairs, exchange_info)
                        probe == BuildRows(g.value[1], t.pairs, any_ticker, <<>>, <<>>)
                    IN  \E ticker \in
                            IF probe.ticker_requests = <<>>
                            THEN {any_ticker} ELSE SessionTickerOutcomes :
                        Fetch(api_key, resp, exchange_info, ticker)

-----------------------------------------------------------------------------
(* The news action: "Buscar Noticias para Moedas Listadas" (lines 455-468) *)

NewsCount == 3

DictHas(d, k) == \E i \in 1..Len(d) : d[i][1] = k

DictGet(d, k) == d[CHOOSE i \in 1..Len(d) : d[i][1] = k][2]

\* Line 463: a name is searched when the cache has no entry for it.  (A stored
\* result is a dict with one key, so `not news_cache[name]` is never true.)
MustSearchAlways(cache, coin_name) == TRUE

MustSearch(cache, coin_name) == ~DictHas(cache, coin_name)

\* for index, row in df_to_display.iterrows() (lines 461-468)
RECURSIVE NewsLoop(_, _, _, _, _)
NewsLoop(rows, brave_api_key, resp, cache, searched) ==
    IF rows = <<>> THEN [cache |-> cache, searched |-> searched]
    ELSE LET coin_name_for_search == Head(rows).Nome
         IN  IF MustSearch(cache, coin_name_for_search)
             THEN LET n == get_brave_search_news(coin_name_for_search, brave_api_key,
                                                 NewsCount, resp)
                  IN  NewsLoop(Tail(rows), brave_api_key, resp,
                               DictSet(cache, coin_name_for_search, n.result),
                               IF n.requests = 1
                               THEN Append(searched, coin_name_for_search) ELSE searched)
             ELSE NewsLoop(Tail(rows), brave_api_key, resp, cache, searched)

\* The display section exists only when the session has a non-empty table
\* (line 374), the button only with a Brave key (line 455).
FetchNews(brave_api_key, resp) ==
    /\ pc = "session"
    /\ coins_df # Absent
    /\ ValOf(coins_df) # <<>>
    /\ brave_api_key # ""
    /\ LET cache == IF news_cache = Absent THEN <<>> ELSE ValOf(news_cache)
           n == NewsLoop(ValOf(coins_df), brave_api_key, resp, cache, <<>>)
       IN  /\ news_cache' = Val(n.cache)
           /\ news_requests' = news_requests \o n.searched
           /\ last' = [NoFetch EXCEPT !.action = "news"]
    /\ UNCHANGED <<top_coins_data, coins_df, data_fetched_time_utc, binance_usdt_pairs,
                   now, origin, exchange_info_requests, args, ret, pc>>

\* Answers of the search API within one news action: MaxItems complete
\* 'news' results, no results at all, or HTTP 429.
FullCollection(coll) ==
    Val(Val([i \in 1..MaxItems |->
        CHOOSE r \in RawItems(coll) : r.title # Absent]))

NewsActionOutcomes ==
    {o \in SearchOutcomes :
        \/ o.kind = "ok" /\ o.data.news \in {Absent, FullCollection("news")}
                         /\ o.data.web = Absent
        \/ o.kind = "http" /\ o.status_code = "429"}

BuscarNoticias ==
    \E brave_api_key \in Keys \ {""}, resp \in NewsActionOutcomes :
        FetchNews(brave_api_key, resp)

-----------------------------------------------------------------------------
(* The session *)

NoCall == [fn |-> "none"]

InitSession ==
    /\ top_coins_data = Absent
    /\ coins_df = Absent
    /\ data_fetched_time_utc = Absent
    /\ news_cache = Absent
    /\ binance_usdt_pairs = Absent
    /\ now = 0
    /\ origin = [top_coins_data |-> 0, coins_df |-> 0]
    /\ exchange_info_requests = <<>>
    /\ news_requests = <<>>
    /\ last = NoFetch

Init ==
    /\ InitSession
    /\ args = NoCall
    /\ ret = NoCall
    /\ pc = "session"

Next == FetchData \/ BuscarNoticias

Spec == Init /\ [][Next]_vars

-----------------------------------------------------------------------------
(* The ranking of get_top_gainers on its own *)

FreeCoins ==
    {[id |-> Val(i), name |-> Val("Free"), symbol |-> Val("xyz"), current_price |-> Val(1),
      price_change_percentage_24h_in_currency |-> c, total_volume |-> v] :
        i \in 1..2,
        c \in {Null, Val(2), Val(20)},
        v \in {Val(VolumeThreshold), Val(VolumeThreshold + 1)}}

\* The input: a window of the listing with at most MaxTail free records
\* before and after it.
InitRank ==
    /\ InitSession
    /\ \E head \in SeqsUpTo(FreeCoins, MaxTail) :
       \E tail \in SeqsUpTo(FreeCoins, MaxTail - Len(head)) :
       \E m \in 1..2, n \in 0..MaxWindow :
           args = [fn |-> "get_top_gainers",
                   all_coins_data |-> head \o Window(m, 0, n) \o tail]
    /\ ret = NoCall
    /\ pc = "call"

RankCall ==
    /\ pc = "call"
    /\ args.fn = "get_top_gainers"
    /\ ret' = get_top_gainers("demo-key", <<OkPage(args.all_coins_data), OkPage(<<>>)>>)
    /\ pc' = "done"
    /\ UNCHANGED <<session_vars, args>>

SpecRank == InitRank /\ [][RankCall]_vars

-----------------------------------------------------------------------------
(* check_binance_data on its own *)

CheckSymbols == {"btc", "BTC", "eth", "xyz", "Doge", "N/A"}

CheckPairSets ==
    {NoPairs, [type |-> "list", elems |-> {"BTCUSDT"}]}
    \cup {PairSet(S) : S \in SUBSET {"BTCUSDT", "ETHUSDT", "DOGEUSDT"}}

InitCheck ==
    /\ InitSession
    /\ args \in {[fn |-> "check_binance_data", coin_symbol |-> s,
                  tradable_usdt_pairs |-> p, ticker |-> t] :
                    s \in CheckSymbols, p \in CheckPairSets, t \in TickerOutcomes}
    /\ ret = NoCall
    /\ pc = "call"

CheckCall ==
    /\ pc = "call"
    /\ args.fn = "check_binance_data"
    /\ ret' = check_binance_data(args.coin_symbol, args.tradable_usdt_pairs, args.ticker)
    /\ pc' = "done"
    /\ UNCHANGED <<session_vars, args>>

SpecCheck == InitCheck /\ [][CheckCall]_vars

-----------------------------------------------------------------------------
(* get_brave_search_news on its own *)

InitNews ==
    /\ InitSession
    /\ args \in {[fn |-> "get_brave_search_news", coin_name |-> c, b_api_key |-> k,
                  count |-> NewsCount, resp |-> r] :
                    c \in {"", "Bitcoin"}, k \in Keys, r \in SearchOutcomes}
    /\ ret = NoCall
    /\ pc = "call"

NewsCall ==
    /\ pc = "call"
    /\ args.fn = "get_brave_search_news"
    /\ ret' = get_brave_search_news(args.coin_name, args.b_api_key, args.count, args.resp)
    /\ pc' = "done"
    /\ UNCHANGED <<session_vars, args>>

SpecNews == InitNews /\ [][NewsCall]_vars

-----------------------------------------------------------------------------
(* Properties *)

Output == IF ret.value = None THEN <<>> ELSE ret.value[1]

Change(coin) == coin.price_change_percentage_24h_in_currency

Qualifies(coin) ==
    /\ IsVal(Change(coin))
    /\ IsVal(coin.total_volume)
    /\ ValOf(coin.total_volume) > 1000000

\* C1: the ranking returns at most 10 coins, ordered by 24h percentage change
\* descending, each with a defined percentage change and a volume strictly
\* greater than 1,000,000.
C1_RankedTopTen ==
    pc = "done" =>
        /\ Len(Output) <= 10
        /\ \A i, j \in 1..Len(Output) :
               i < j => ValOf(Change(Output[i])) >= ValOf(Change(Output[j]))
        /\ \A i \in 1..Len(Output) : Qualifies(Output[i])

\* More than ten coins qualify, one record sits exactly on the threshold,
\* and ten are returned.
C1_Witness ==
    /\ pc = "done"
    /\ Len(Output) = 10
    /\ Cardinality({i \in 1..Len(ret.all_coins_data) : Qualifies(ret.all_coins_data[i])}) > 10
    /\ \E i \in 1..Len(ret.all_coins_data) :
           ret.all_coins_data[i].total_volume = Val(1000000)

LastIndexOf(coins, id) ==
    CHOOSE i \in 1..Len(coins) :
        /\ coins[i].id = id
        /\ \A j \in 1..Len(coins) : coins[j].id = id => j <= i

\* C2: of the records that share an identifier only the last one in input
\* order is considered: every returned coin is the last input record with
\* its identifier, so an earlier record never appears and never qualifies
\* the coin.
C2_LaterRecordWins ==
    pc = "done" =>
        \A k \in 1..Len(Output) :
            Output[k] = ret.all_coins_data[LastIndexOf(ret.all_coins_data, Output[k].id)]

\* Two records share an identifier, the earlier one qualifies with another
\* percentage change, and the later one is in the output; a third identifier
\* has a qualifying record followed by one that does not qualify.
C2_Witness ==
    /\ pc = "done"
    /\ \E i, j \in 1..Len(ret.all_coins_data) :
           /\ i < j
           /\ ret.all_coins_data[i].id = ret.all_coins_data[j].id
           /\ Qualifies(ret.all_coins_data[i])
           /\ Change(ret.all_coins_data[i]) # Change(ret.all_coins_data[j])
           /\ \E k \in 1..Len(Output) : Output[k] = ret.all_coins_data[j]
    /\ \E i, j \in 1..Len(ret.all_coins_data) :
           /\ i < j
           /\ ret.all_coins_data[i].id = ret.all_coins_data[j].id
           /\ Qualifies(ret.all_coins_data[i])
           /\ ~Qualifies(ret.all_coins_data[j])
           /\ \A k \in 1..Len(Output) : Output[k].id # ret.all_coins_data[j].id

\* C3: HTTP 401 on any page ends the requests and the fetch returns a
\* failure with no data, whatever earlier pages delivered.
C3_UnauthorizedIsFatal ==
    last.action = "fetch" =>
        \A k \in 1..Len(last.log) :
            last.log[k].kind = "http401" =>
                /\ k = Len(last.log)
                /\ last.value = None
                /\ top_coins_data = Absent
                /\ coins_df = Absent

\* Page 1 delivered records and page 2 answered 401.
C3_Witness ==
    /\ last.action = "fetch"
    /\ Len(last.log) = 2
    /\ last.log[1].kind = "ok"
    /\ last.log[1].body # <<>>
    /\ last.log[2].kind = "http401"

RECURSIVE BodiesBefore(_, _)
BodiesBefore(log, k) ==
    IF k <= 1 THEN <<>> ELSE BodiesBefore(log, k - 1) \o log[k - 1].body

\* C4: a page failure other than 401 ends the requests; the records of the
\* earlier pages are kept and the fetch goes on with them as if the
\* remaining pages were empty; with nothing collected the fetch fails.
C4_PartialDataKept ==
    last.action = "fetch" =>
        \A k \in 1..Len(last.log) :
            last.log[k].kind \notin {"ok", "http401"} =>
                /\ k = Len(last.log)
                /\ last.all_coins_data = BodiesBefore(last.log, k)
                /\ last.all_coins_data = <<>> => last.value = None
                /\ last.all_coins_data # <<>> =>
                       LET rest_empty == get_top_gainers(last.key,
                               <<OkPage(last.all_coins_data), OkPage(<<>>)>>)
                       IN  /\ last.value = rest_empty.value
                           /\ last.gainers_raised = rest_empty.raised

\* Page 1 delivered records, page 2 failed with a connection error, and the
\* fetch produced a ranking from page 1.
C4_Witness ==
    /\ last.action = "fetch"
    /\ Len(last.log) = 2
    /\ last.log[1].body # <<>>
    /\ last.log[2].kind = "request_exception"
    /\ last.value # None
    /\ top_coins_data = Val(last.value[1])

\* C5: whatever the external calls answer during a fetch action, including
\* records that lack expected fields, no raw exception escapes
\* get_top_gainers, check_binance_data or the fetch action.
C5_NoRawException ==
    last.action = "fetch" => last.raised = "none"

\* C6: the exchange-metadata request is issued at most once in a session;
\* when it fails the empty set is cached, and once a pair set is cached
\* every later call returns it without a request.
C6_PairsFetchedOnce ==
    [][/\ Len(exchange_info_requests') <= 1
       /\ (last'.action = "fetch" /\ last'.pairs_requested
               /\ exchange_info_requests'[1] # "ok")
          => (binance_usdt_pairs' = Val({}) /\ last'.pairs = {})
       /\ binance_usdt_pairs # Absent =>
              /\ binance_usdt_pairs' = binance_usdt_pairs
              /\ exchange_info_requests' = exchange_info_requests
              /\ (last'.action = "fetch" /\ last'.value # None)
                 => (~last'.pairs_requested /\ last'.pairs = ValOf(binance_usdt_pairs))
      ]_vars

\* The only request failed, and a second fetch that ranked coins got the
\* cached empty set.
C6_Witness ==
    /\ exchange_info_requests = <<"request_exception">>
    /\ now = 2
    /\ last.action = "fetch"
    /\ last.value # None
    /\ ~last.pairs_requested
    /\ last.pairs = {}
    /\ binance_usdt_pairs = Val({})

\* C7: after any fetch action the ranked list, the table and the timestamp
\* are absent or come from this fetch, and the news cache is empty.
C7_FetchInvalidates ==
    last.action = "fetch" =>
        /\ news_cache = Absent
        /\ top_coins_data = Absent \/ origin.top_coins_data = now
        /\ coins_df = Absent \/ origin.coins_df = now
        /\ data_fetched_time_utc = Absent \/ data_fetched_time_utc = Val(now)

\* The first fetch produced a list and a table; the second, without an API
\* key, left none of them.
C7_Witness ==
    /\ last.action = "fetch"
    /\ last.key = ""
    /\ now = 2
    /\ origin.top_coins_data = 1
    /\ origin.coins_df = 1
    /\ top_coins_data = Absent
    /\ coins_df = Absent
    /\ data_fetched_time_utc = Absent

\* C8: without a pair set the status is CheckUnavailable, with the empty
\* pair set it is ExchangeUnavailable; the two differ, neither carries a
\* price or a volume, and neither issues a ticker request.
C8_UnavailableStatuses ==
    (pc = "done" /\ args.tradable_usdt_pairs \in {NoPairs, PairSet({})}) =>
        /\ ret.quote.status_binance =
               IF args.tradable_usdt_pairs = NoPairs
               THEN "Verif. Indisponivel" ELSE "Binance Indisponivel"
        /\ ret.quote.price_binance = NA
        /\ ret.quote.volume_binance = NA
        /\ ret.ticker_requests = <<>>

C8_Witness ==
    /\ pc = "done"
    /\ args.tradable_usdt_pairs = NoPairs
    /\ args.coin_symbol = "btc"
    /\ ret.quote.status_binance = "Verif. Indisponivel"

\* C9: for a non-empty pair set, a symbol whose upper-cased form followed by
\* USDT is not a member gets NotListed with no price, no volume and no
\* ticker request; a ticker request is issued only for a member.
C9_NotListedWithoutRequest ==
    (pc = "done" /\ args.tradable_usdt_pairs.type = "set"
                 /\ args.tradable_usdt_pairs.elems # {}) =>
        LET composed == Upper(args.coin_symbol) \o "USDT"
        IN  /\ composed \notin args.tradable_usdt_pairs.elems =>
                   /\ ret.quote = Quote("Nao na Binance (USDT)", NA, NA)
                   /\ ret.ticker_requests = <<>>
            /\ ret.ticker_requests # <<>> =>
                   /\ composed \in args.tradable_usdt_pairs.elems
                   /\ ret.ticker_requests = <<composed>>

C9_Witness ==
    /\ pc = "done"
    /\ args.coin_symbol = "Doge"
    /\ args.tradable_usdt_pairs = PairSet({"BTCUSDT", "ETHUSDT"})
    /\ ret.quote.status_binance = "Nao na Binance (USDT)"
    /\ ret.ticker_requests = <<>>

\* C10: on a successful response the result is the items of the 'news'
\* collection when it is non-empty, else the items of the 'web' collection
\* when that is non-empty, else the NoResults message, which is not an
\* error; the two collections are never mixed.
C10_NewsThenWeb ==
    (pc = "done" /\ args.b_api_key # "" /\ args.coin_name # "" /\ args.resp.kind = "ok") =>
        LET news == ResultsOf(args.resp.data.news)
            web == ResultsOf(args.resp.data.web)
        IN  IF news # <<>>
            THEN ret.result.key = "news" /\ ret.result.items = ProcessItems(news)
            ELSE IF web # <<>>
            THEN ret.result.key = "news" /\ ret.result.items = ProcessItems(web)
            ELSE ret.result.key = "message" /\ ret.result.items = <<>>

\* No 'news' key, two 'web' results: the result is the two web items.
C10_Witness ==
    /\ pc = "done"
    /\ args.b_api_key # ""
    /\ args.coin_name # ""
    /\ args.resp.kind = "ok"
    /\ args.resp.data.news = Absent
    /\ Len(ResultsOf(args.resp.data.web)) = 2
    /\ ret.result.key = "news"
    /\ Len(ret.result.items) = 2
    /\ ret.result.items[1].title \in {"web title", "N/A"}

\* C11: the news items returned for a coin and stored in the news cache
\* are at most the configured count (3), whatever the search API returns.
C11_NewsAtMostCount ==
    news_cache # Absent =>
        \A i \in 1..Len(ValOf(news_cache)) :
            Len(ValOf(news_cache)[i][2].items) <= 3

CacheOf(entry) == IF entry = Absent THEN <<>> ELSE ValOf(entry)

\* C12: between two fetch actions each coin name is searched at most once:
\* a news action searches no name that already has a stored result (items,
\* the NoResults message or an error), keeps that result, and searches a
\* name that several rows share only once.
C12_OneSearchPerName ==
    [][last'.action = "news" =>
          LET searched == SubSeq(news_requests', Len(news_requests) + 1, Len(news_requests'))
              before == CacheOf(news_cache)
              after == CacheOf(news_cache')
          IN  /\ \A i, j \in 1..Len(news_requests') :
                     news_requests'[i] = news_requests'[j] => i = j
              /\ \A i \in 1..Len(before) :
                     /\ DictHas(after, before[i][1])
                     /\ DictGet(after, before[i][1]) = before[i][2]
                     /\ \A k \in 1..Len(searched) : searched[k] # before[i][1]
              /\ \A k \in 1..Len(searched) : DictHas(after, searched[k])
      ]_vars

\* A table in which two rows share a name, after a news action: fewer
\* searches than rows, and a stored error result among them.
C12_Witness ==
    /\ last.action = "news"
    /\ coins_df # Absent
    /\ \E i, j \in 1..Len(ValOf(coins_df)) :
           i < j /\ ValOf(coins_df)[i].Nome = ValOf(coins_df)[j].Nome
    /\ news_requests # <<>>
    /\ Len(news_requests) < Len(ValOf(coins_df))
    /\ Len(news_requests) = Len(ValOf(news_cache))
    /\ \E i \in 1..Len(ValOf(news_cache)) : ValOf(news_cache)[i][2].key = "error"

FirstIndexOf(coins, id) ==
    CHOOSE i \in 1..Len(coins) :
        /\ coins[i].id = id
        /\ \A j \in 1..Len(coins) : coins[j].id = id => i <= j

\* The identifiers whose last input record qualifies.
QualifyingIds(coins) ==
    {coins[i].id : i \in {j \in 1..Len(coins) :
        Qualifies(coins[LastIndexOf(coins, coins[j].id)])}}

\* C13: the output has exactly min(10, number of qualifying coins) coins
\* with pairwise distinct identifiers; no qualifying coin left out has a
\* percentage change strictly greater than one in the output; coins with
\* equal percentage change keep their order after deduplication (the order
\* in which their identifiers first occur in the input).
C13_TopNComplete ==
    pc = "done" =>
        LET coins == ret.all_coins_data
            qualifying == QualifyingIds(coins)
            n == Cardinality(qualifying)
        IN  /\ Len(Output) = IF n < 10 THEN n ELSE 10
            /\ \A i, j \in 1..Len(Output) : Output[i].id = Output[j].id => i = j
            /\ \A id \in qualifying :
                   (\A k \in 1..Len(Output) : Output[k].id # id) =>
                       \A k \in 1..Len(Output) :
                           ValOf(Change(coins[LastIndexOf(coins, id)]))
                               <= ValOf(Change(Output[k]))
            /\ \A i, j \in 1..Len(Output) :
                   (i < j /\ Change(Output[i]) = Change(Output[j])) =>
                       FirstIndexOf(coins, Output[i].id) < FirstIndexOf(coins, Output[j].id)

\* More than ten identifiers qualify, one of them after a duplicate was
\* replaced, ten are returned and two of them have the same change.
C13_Witness ==
    /\ pc = "done"
    /\ Len(Output) = 10
    /\ Cardinality(QualifyingIds(ret.all_coins_data)) > 10
    /\ Len(ret.all_coins_data) > Cardinality({ret.all_coins_data[i].id :
                                                 i \in 1..Len(ret.all_coins_data)})
    /\ \E i, j \in 1..Len(Output) : i < j /\ Change(Output[i]) = Change(Output[j])

====
